---- MODULE Spec2Model ----
(***************************************************************************)
(* Verification model of xpgram/codingame-solutions.                       *)
(*                                                                         *)
(* Part 1: "Shadows of the Knight" episode 2, the polygon-slicing search   *)
(* (src/shadows-of-the-knight/ep2/solution.cpp): Point, Line, Polygon and  *)
(* the game loop of main.                                                  *)
(*                                                                         *)
(* The C++ `double` coordinates are modelled as exact rationals <<n, d>>   *)
(* in lowest terms with d > 0.  Every value the driver feeds into the      *)
(* geometry is an integer (board corners, probes, mid, midB); the only     *)
(* non-integers are intersection points and vertex averages.               *)
(***************************************************************************)
EXTENDS Integers, Sequences, FiniteSets, TLC

(***************************************************************************)
(* Bounds of the model.                                                    *)
(***************************************************************************)
MaxW == 2
MaxH == 4
MaxTurns == 2
\* the largest board of the runs that are followed for one turn only
MaxBoard == 8
\* the grid the stand-alone geometry inputs are drawn from
GridW == 2
GridH == 1
\* Line's constructor is tried on the points of (-LineMax..LineMax)^2
LineMax == 1
\* Line's methods are tried on the points of (0..CrossMax)^2
CrossMax == 2
\* the boards of the ep1 bot are up to MaxW1 x MaxH1
MaxW1 == 3
MaxH1 == 3

(***************************************************************************)
(* Rational arithmetic standing for the arithmetic of `double`.            *)
(***************************************************************************)
Abs(n) == IF n < 0 THEN -n ELSE n

RECURSIVE GCD(_, _)
GCD(a, b) == IF b = 0 THEN a ELSE GCD(b, a % b)

Norm(n, d) ==
    LET s == IF d < 0 THEN -1 ELSE 1
        g == GCD(Abs(n), Abs(d))
    IN  <<(s * n) \div g, (s * d) \div g>>

R(n) == <<n, 1>>
RNeg(p) == <<-p[1], p[2]>>
\* Common factors are divided out before multiplying, to keep the
\* intermediate products small.
RAddBy(p, q, g) ==
    Norm(p[1] * (q[2] \div g) + q[1] * (p[2] \div g), (p[2] \div g) * q[2])
RAdd(p, q) ==
    IF p[2] = 1 /\ q[2] = 1 THEN <<p[1] + q[1], 1>>
    ELSE IF p[2] = q[2] THEN Norm(p[1] + q[1], p[2])
    ELSE RAddBy(p, q, GCD(p[2], q[2]))
RSub(p, q) == RAdd(p, RNeg(q))
RMulBy(p, q, g1, g2) ==
    Norm((p[1] \div g1) * (q[1] \div g2), (p[2] \div g2) * (q[2] \div g1))
RMul(p, q) ==
    IF p[2] = 1 /\ q[2] = 1 THEN <<p[1] * q[1], 1>>
    ELSE RMulBy(p, q, GCD(Abs(p[1]), q[2]), GCD(Abs(q[1]), p[2]))
RInv(q) == IF q[1] < 0 THEN <<-q[2], -q[1]>> ELSE <<q[2], q[1]>>
RDiv(p, q) == RMul(p, RInv(q))
\* p < q for p, q >= 0, by comparing integer parts and then, the other way
\* round, the reciprocals of the fractional parts
RECURSIVE PosLt(_, _, _, _)
PosLt(a, b, c, d) ==
    IF a \div b # c \div d THEN a \div b < c \div d
    ELSE IF c % d = 0 THEN FALSE
    ELSE IF a % b = 0 THEN TRUE
    ELSE PosLt(d, c % d, b, a % b)
RLt(p, q) ==
    IF p[2] = q[2] THEN p[1] < q[1]
    ELSE IF p[1] < 0 /\ q[1] >= 0 THEN TRUE
    ELSE IF p[1] >= 0 /\ q[1] < 0 THEN FALSE
    ELSE IF p[1] >= 0 THEN PosLt(p[1], p[2], q[1], q[2])
    ELSE PosLt(-q[1], q[2], -p[1], p[2])
RLe(p, q) == ~RLt(q, p)
RAbs(p) == <<Abs(p[1]), p[2]>>
RMin(p, q) == IF RLt(q, p) THEN q ELSE p
RMax(p, q) == IF RLt(p, q) THEN q ELSE p
\* floor() of <cmath>
floor(p) == R(p[1] \div p[2])
\* int(double) of an integral value
ToInt(p) == p[1] \div p[2]

(***************************************************************************)
(* Free functions.                                                         *)
(***************************************************************************)
within(n, lo, hi) == RLe(RMin(lo, hi), n) /\ RLe(n, RMax(lo, hi))

clamp(n, lo, hi) == RMax(lo, RMin(hi, n))

(***************************************************************************)
(* class Point                                                             *)
(***************************************************************************)
Point(x, y) == [x |-> x, y |-> y]
\* a Point with integer coordinates
IPoint(x, y) == Point(R(x), R(y))
PointZero == IPoint(0, 0)

PAdd(p, q) == Point(RAdd(p.x, q.x), RAdd(p.y, q.y))
PNeg(p) == Point(RNeg(p.x), RNeg(p.y))
PSub(p, q) == PAdd(PNeg(q), p)
PDiv(p, n) == Point(RDiv(p.x, n), RDiv(p.y, n))
PMul(p, n) == Point(RMul(p.x, n), RMul(p.y, n))
apply_floor(p) == Point(floor(p.x), floor(p.y))
manhattanMagnitude(p) == RAdd(RAbs(p.x), RAbs(p.y))
crossZ(p, q) == RSub(RMul(p.x, q.y), RMul(p.y, q.x))
\* x*x + y*y, the square of magnitude()
magnitude2(p) == RAdd(RMul(p.x, p.x), RMul(p.y, p.y))
\* the square of distanceTo(); sqrt is monotonic, so comparisons agree
distanceTo2(p, q) == magnitude2(PSub(q, p))

\* sqrt(x*x + y*y) is modelled where it is an integer
hasExactMagnitude(p) ==
    /\ p.x[2] = 1 /\ p.y[2] = 1
    /\ \E k \in 0..(Abs(p.x[1]) + Abs(p.y[1])) :
          k * k = p.x[1] * p.x[1] + p.y[1] * p.y[1]

\* Point::magnitude of such a p
magnitude(p) ==
    R(CHOOSE k \in 0..(Abs(p.x[1]) + Abs(p.y[1])) :
          k * k = p.x[1] * p.x[1] + p.y[1] * p.y[1])

\* rotateByComplex without the normalisation of its argument
rotateByComplex_raw(p, vec, m) ==
    Point(RSub(RMul(p.x, vec.x), RMul(p.y, vec.y)),
          RAdd(RMul(p.x, vec.y), RMul(p.y, vec.x)))

\* Point::rotateByComplex for an argument of integral magnitude m (the
\* driver only ever passes Point(0,1)): vec = vec.unitVector(), then the
\* complex product.
rotateByComplex(p, vec, m) ==
    LET u == PDiv(vec, m)
    IN  Point(RSub(RMul(p.x, u.x), RMul(p.y, u.y)),
              RAdd(RMul(p.x, u.y), RMul(p.y, u.x)))

(***************************************************************************)
(* class Line                                                              *)
(***************************************************************************)
\* Point::slope
slope(v) == IF v.x # R(0) THEN RDiv(v.y, v.x) ELSE R(0)

\* LineValid looking at the x component of vec only
LineValid_xOnly(A, B) == RAbs(PSub(B, A).x) # R(0)

\* The constructor throws invalid_argument exactly when this is FALSE.
LineValid(A, B) == manhattanMagnitude(PSub(B, A)) # R(0)

Line(A, B) ==
    LET v == PSub(B, A)
    IN  [A |-> A, B |-> B, vec |-> v, slope |-> slope(v),
         lift |-> RAdd(RMul(RNeg(slope(v)), A.x), A.y)]

NoPoint == [none |-> TRUE]

\* intersection taking the ratio s along the other line for the ratio t
intersection_ratioS(this, other) ==
    LET vecA == this.vec
        vecB == other.vec
        vecC == PSub(this.A, other.A)
        denom == crossZ(vecA, vecB)
    IN  IF denom = R(0) THEN NoPoint
        ELSE PAdd(this.A, PMul(this.vec, RDiv(crossZ(vecA, vecC), denom)))

\* Line::intersection: nullopt (NoPoint) or the crossing point.
intersection(this, other) ==
    LET vecA == this.vec
        vecB == other.vec
        vecC == PSub(this.A, other.A)
        denom == crossZ(vecA, vecB)
    IN  IF denom = R(0) THEN NoPoint
        ELSE PAdd(this.A, PMul(this.vec, RDiv(crossZ(vecB, vecC), denom)))

Tolerance == <<2, 1000>>

\* pointInSegment without the test against the bounds of A and B
pointInSegment_unbounded(this, P) ==
    LET isA == (this.A = P)
        isParallel == RLt(crossZ(this.vec, PSub(P, this.A)), Tolerance)
    IN  isA \/ isParallel

pointInSegment(this, P) ==
    LET isA == (this.A = P)
        isParallel == RLt(crossZ(this.vec, PSub(P, this.A)), Tolerance)
        inBounds == within(P.x, this.A.x, this.B.x)
                    /\ within(P.y, this.A.y, this.B.y)
    IN  (isA \/ isParallel) /\ inBounds

(***************************************************************************)
(* class Polygon: a sequence of vertices.  Position k of the sequence is   *)
(* the C++ index k-1; edge indices are reported as in the C++ (0-based).   *)
(***************************************************************************)
Succ(V, i) == (i % Len(V)) + 1

\* Some Line constructor inside intersectsFromLine throws.
intersectsThrows(V, A, B) ==
    \/ ~LineValid(A, B)
    \/ \E i \in 1..Len(V) : ~LineValid(V[i], V[Succ(V, i)])

\* sideAccepted skipping the crossing at the side's start I instead of J
sideAccepted_skipStart(poly_side, J, intersect) ==
    /\ intersect # NoPoint
    /\ intersect # poly_side.A
    /\ pointInSegment(poly_side, intersect)

\* The test the loop body applies to the crossing point found on side
\* I -> J (lines 260-277).
sideAccepted(poly_side, J, intersect) ==
    /\ intersect # NoPoint
    /\ intersect # J
    /\ pointInSegment(poly_side, intersect)

sideEntry(poly_side, J, intersect, i) ==
    IF sideAccepted(poly_side, J, intersect)
    THEN <<[first |-> intersect, second |-> i - 1]>>
    ELSE <<>>

sideIntersects(poly_side, J, line_cast, i) ==
    sideEntry(poly_side, J, intersection(poly_side, line_cast), i)

RECURSIVE collectIntersects(_, _, _)
collectIntersects(V, line_cast, i) ==
    IF i > Len(V) THEN <<>>
    ELSE sideIntersects(Line(V[i], V[Succ(V, i)]), V[Succ(V, i)], line_cast, i)
         \o collectIntersects(V, line_cast, i + 1)

\* Polygon::intersectsFromLine, defined when intersectsThrows is FALSE.
intersectsFromLine(V, A, B) == collectIntersects(V, Line(A, B), 1)

Min2(a, b) == IF a < b THEN a ELSE b
Max2(a, b) == IF a < b THEN b ELSE a

\* shapeAOf copying from itA instead of itA+1
shapeAOf_fromItA(V, pA, pB, itA, itB) ==
    LET sA0 == SubSeq(V, itA + 1, itB + 1)
        sA1 == IF sA0[Len(sA0)] # pB THEN Append(sA0, pB) ELSE sA0
    IN  IF sA1[1] # pA THEN Append(sA1, pA) ELSE sA1

\* lines 319-324: all vertices pA -> pB
shapeAOf(V, pA, pB, itA, itB) ==
    LET sA0 == SubSeq(V, itA + 2, itB + 1)
        sA1 == IF sA0[Len(sA0)] # pB THEN Append(sA0, pB) ELSE sA0
    IN  IF sA1[1] # pA THEN Append(sA1, pA) ELSE sA1

\* lines 326-332: all vertices pB -> pA.  ubA and ubB are the outcomes of
\* the two comparisons that read one element past the end of a vector
\* (undefined behaviour): ubA of `*(shapeB.end()) != pA`, ubB of
\* `*(itB+1) != pB` when itB+1 is vertices.end().
shapeBOf(V, pA, pB, itA, itB, ubA, ubB) ==
    LET sB0 == SubSeq(V, 1, itA + 1)
        sB1 == IF ubA THEN Append(sB0, pA) ELSE sB0
        cmpB == IF itB + 2 <= Len(V) THEN V[itB + 2] # pB ELSE ubB
        sB2 == IF cmpB THEN Append(sB1, pB) ELSE sB1
    IN  sB2 \o SubSeq(V, itB + 2, Len(V))

\* sliceAt going on with the first two entries of a longer list
sliceAt_firstTwo(V, intersects, ubA, ubB) ==
    IF Len(intersects) < 2 THEN [threw |-> "none", polys |-> <<V>>]
    ELSE [threw |-> "none",
          polys |-> <<shapeAOf(V, intersects[1].first, intersects[2].first,
                               Min2(intersects[1].second, intersects[2].second),
                               Max2(intersects[1].second, intersects[2].second)),
                      shapeBOf(V, intersects[1].first, intersects[2].first,
                               Min2(intersects[1].second, intersects[2].second),
                               Max2(intersects[1].second, intersects[2].second),
                               ubA, ubB)>>]

\* sliceAt throwing whenever the list does not hold exactly two entries
sliceAt_onlyTwo(V, intersects, ubA, ubB) ==
    IF Len(intersects) # 2
    THEN [threw |-> "DegenerateGeometry", polys |-> <<>>]
    ELSE [threw |-> "none",
          polys |-> <<shapeAOf(V, intersects[1].first, intersects[2].first,
                               Min2(intersects[1].second, intersects[2].second),
                               Max2(intersects[1].second, intersects[2].second)),
                      shapeBOf(V, intersects[1].first, intersects[2].first,
                               Min2(intersects[1].second, intersects[2].second),
                               Max2(intersects[1].second, intersects[2].second),
                               ubA, ubB)>>]

\* lines 296-334, given the list intersectsFromLine returned
sliceAt(V, intersects, ubA, ubB) ==
    IF Len(intersects) < 2 THEN [threw |-> "none", polys |-> <<V>>]
    ELSE IF Len(intersects) > 2
    THEN [threw |-> "DegenerateGeometry", polys |-> <<>>]
    ELSE [threw |-> "none",
          polys |-> <<shapeAOf(V, intersects[1].first, intersects[2].first,
                               Min2(intersects[1].second, intersects[2].second),
                               Max2(intersects[1].second, intersects[2].second)),
                      shapeBOf(V, intersects[1].first, intersects[2].first,
                               Min2(intersects[1].second, intersects[2].second),
                               Max2(intersects[1].second, intersects[2].second),
                               ubA, ubB)>>]

\* an invalid_argument thrown by Line's constructor
Threw == [threw |-> "InvalidGeometry"]

\* a call of intersectsFromLine: the list returned, or the exception
intersectsOrThrow(V, A, B) ==
    IF intersectsThrows(V, A, B)
    THEN [threw |-> "InvalidGeometry", list |-> <<>>]
    ELSE [threw |-> "none", list |-> intersectsFromLine(V, A, B)]

\* lines 294-334, given the outcome of the call of line 294
sliceFrom(V, found, ubA, ubB) ==
    IF found.threw # "none"
    THEN [threw |-> found.threw, polys |-> <<>>]
    ELSE sliceAt(V, found.list, ubA, ubB)

\* Polygon::slice
slice(V, A, B, ubA, ubB) ==
    sliceFrom(V, intersectsOrThrow(V, A, B), ubA, ubB)

RECURSIVE sumVertices(_, _)
sumVertices(V, i) ==
    IF i > Len(V) THEN PointZero ELSE PAdd(V[i], sumVertices(V, i + 1))

\* Polygon::averageVertex
averageVertex(V) == PDiv(sumVertices(V, 1), R(Len(V)))

(***************************************************************************)
(* main of ep2/solution.cpp: the game loop.                                *)
(*                                                                         *)
(* pc = "probe"   at the top of the while loop (line 400)                  *)
(* pc = "clue"    blocked on `cin >> bomb_clue` (line 420)                 *)
(* pc = "aborted" terminated by an uncaught invalid_argument               *)
(***************************************************************************)
VARIABLES
    width, height,  \* the board
    target,         \* the oracle's hidden cell
    search,         \* Polygon search
    pos, lastPos,   \* Point pos, lastPos
    bomb_clue,      \* the last token read
    pc,
    error,          \* which exception ended the run
    turn,           \* probes emitted so far
    honest,         \* every clue so far was the honest one
    sliced,         \* the last clue handler called search.slice (its cerr trace)
    shapes,         \* what that call returned
    before,         \* the search polygon when the last clue was read
    strayRead,      \* a read past the end of a vector has compared equal
    probed,         \* a probe emitted so far was the target cell
    \* the geometry classes called on their own
    gStage,         \* "input", or the call that was made
    gPoly,          \* vertices of a Polygon
    gA, gB,         \* the two Points handed to the call
    gC, gD,         \* the Points of a second Line, or a Point to test
    gOut,           \* what the call produced
    \* shadows-of-the-knight/ep1: the direction-hint bot
    ep1Width, ep1Height,    \* int width, height
    ep1Target,              \* the oracle's hidden cell
    ep1Pos,                 \* Point pos
    topleft, bottomright,   \* Point topleft, bottomright
    dir,                    \* string dir, as the sequence of its characters
    ep1Pc,
    ep1Honest,              \* every hint so far was the honest one
    ep1Found,               \* the last probe emitted is the target cell
    \* unknown-rules: the wall follower
    tvec,           \* Player::tvec
    local,          \* Walls local, as read for the last call of nextCmd
    cmd,            \* what the last call of nextCmd returned ("" before any)
    heading         \* tvec when that call began

driverVars == <<width, height, target, search, pos, lastPos, bomb_clue, pc,
                error, turn, honest, sliced, shapes, before, strayRead,
                probed>>
geomVars == <<gStage, gPoly, gA, gB, gC, gD, gOut>>
ep1Vars == <<ep1Width, ep1Height, ep1Target, ep1Pos, topleft, bottomright,
             dir, ep1Pc, ep1Honest, ep1Found>>
playerVars == <<tvec, local, cmd, heading>>
otherVars == <<ep1Vars, playerVars>>
vars == <<driverVars, geomVars, otherVars>>

\* a Point of ints (ep1 and unknown-rules)
Pt(x, y) == [x |-> x, y |-> y]

\* the ep1 bot is not running
ep1Off ==
    /\ ep1Width = 0 /\ ep1Height = 0 /\ ep1Target = Pt(0, 0)
    /\ ep1Pos = Pt(0, 0) /\ topleft = Pt(0, 0) /\ bottomright = Pt(0, 0)
    /\ dir = <<>> /\ ep1Pc = "off" /\ ep1Honest = TRUE /\ ep1Found = FALSE

\* unknown-rules lines 154 and 188: a Player and the Walls before any frame
playerNew ==
    /\ tvec = Pt(1, 0)
    /\ local = [up |-> "", right |-> "", down |-> "", left |-> ""]
    /\ cmd = ""
    /\ heading = Pt(1, 0)

\* "OTHER" stands for every token that is none of the three literals
Clues == {"WARMER", "COLDER", "SAME", "OTHER"}

Cells(w, h) == {IPoint(x, y) : x \in 0..(w - 1), y \in 0..(h - 1)}

\* BoardRect with its far corner on the last cell, (w-1, h-1)
BoardRect_lastCell(w, h) ==
    <<PointZero, IPoint(w - 1, 0), IPoint(w - 1, h - 1), IPoint(0, h - 1)>>

\* lines 380-385
BoardRect(w, h) == <<PointZero, IPoint(w, 0), IPoint(w, h), IPoint(0, h)>>

Init ==
    /\ width \in 1..MaxW
    /\ height \in 1..MaxH
    /\ target \in Cells(width, height)
    /\ pos \in Cells(width, height)
    /\ lastPos = PointZero
    /\ search = BoardRect(width, height)
    /\ bomb_clue = "UNKNOWN"
    /\ pc = "probe"
    /\ error = "none"
    /\ turn = 0
    /\ honest = TRUE
    /\ sliced = FALSE
    /\ shapes = <<>>
    /\ before = search
    /\ strayRead = FALSE
    /\ probed = FALSE
    /\ gStage = "off" /\ gPoly = <<>> /\ gA = PointZero /\ gB = PointZero
    /\ gOut = <<>>
    /\ gC = PointZero /\ gD = PointZero
    /\ ep1Off /\ playerNew

\* nextProbe jumping to the search centre instead of reflecting about it
nextProbe_toCentre(S, p, w, h) ==
    LET search_center == averageVertex(S)
        reflected == apply_floor(search_center)
    IN  Point(clamp(reflected.x, R(0), R(w - 1)),
              clamp(reflected.y, R(0), R(h - 1)))

\* nextProbe clamping to width and height instead of width-1 and height-1
nextProbe_offByOne(S, p, w, h) ==
    LET search_center == averageVertex(S)
        reflected == apply_floor(PSub(search_center, PSub(p, search_center)))
    IN  Point(clamp(reflected.x, R(0), R(w)), clamp(reflected.y, R(0), R(h)))

\* lines 405-410: reflect pos about the search centre, floor, clamp
nextProbe(S, p, w, h) ==
    LET search_center == averageVertex(S)
        reflected == apply_floor(PSub(search_center, PSub(p, search_center)))
    IN  Point(clamp(reflected.x, R(0), R(w - 1)),
              clamp(reflected.y, R(0), R(h - 1)))

\* Move without the assignment of line 402
Move_lastPosKept ==
    /\ pc = "probe"
    /\ turn < MaxTurns
    /\ lastPos' = lastPos
    /\ pos' = nextProbe(search, pos, width, height)
    /\ probed' = (probed \/ pos' = target)
    /\ turn' = turn + 1
    /\ pc' = "clue"
    /\ UNCHANGED <<width, height, target, search, bomb_clue, error, honest,
                   sliced, shapes, before, strayRead>>
    /\ UNCHANGED <<geomVars, otherVars>>

\* lines 402-417
Move ==
    /\ pc = "probe"
    /\ turn < MaxTurns
    /\ lastPos' = pos
    /\ pos' = nextProbe(search, pos, width, height)
    /\ probed' = (probed \/ pos' = target)
    /\ turn' = turn + 1
    /\ pc' = "clue"
    /\ UNCHANGED <<width, height, target, search, bomb_clue, error, honest,
                   sliced, shapes, before, strayRead>>
    /\ UNCHANGED <<geomVars, otherVars>>

\* The answer of an oracle that compares Euclidean distances to the target.
HonestClue(p, last, t) ==
    IF RLt(distanceTo2(p, t), distanceTo2(last, t)) THEN "WARMER"
    ELSE IF RLt(distanceTo2(last, t), distanceTo2(p, t)) THEN "COLDER"
    ELSE "SAME"

\* line 447
midOf(p, last) == apply_floor(PAdd(PDiv(PSub(p, last), R(2)), last))
\* line 448
midBOf(p, mid) == PAdd(rotateByComplex(PSub(p, mid), IPoint(0, 1), R(1)), mid)

\* swapWarmCold with the comparison of line 464 turned round
swapWarmCold_flipped(s0, s1, p) ==
    RLt(distanceTo2(averageVertex(s0), p), distanceTo2(averageVertex(s1), p))

\* line 464: shapes[0] stays the warm one unless it is strictly farther
swapWarmCold(s0, s1, p) ==
    RLt(distanceTo2(averageVertex(s1), p), distanceTo2(averageVertex(s0), p))

\* lines 461-479, given the two polygons slice returned
keep(s0, s1, p, clue) ==
    IF clue = "WARMER"
    THEN (IF swapWarmCold(s0, s1, p) THEN s1 ELSE s0)
    ELSE (IF swapWarmCold(s0, s1, p) THEN s0 ELSE s1)

\* lines 455-479, given what search.slice(mid, midB) did
narrowWith(S, p, clue, res) ==
    IF res.threw # "none"
    THEN [threw |-> res.threw, sliced |-> TRUE, shapes |-> <<>>, search |-> S]
    ELSE IF Len(res.polys) < 2
    THEN [threw |-> "none", sliced |-> TRUE, shapes |-> res.polys, search |-> S]
    ELSE [threw |-> "none", sliced |-> TRUE, shapes |-> res.polys,
          search |-> keep(res.polys[1], res.polys[2], p, clue)]

\* lines 447-479, given mid
cut(S, p, last, clue, mid, midB, ubA, ubB) ==
    IF ~LineValid(last, p) \/ ~LineValid(mid, midB)
    THEN [threw |-> "InvalidGeometry", sliced |-> FALSE, shapes |-> <<>>,
          search |-> S]
    ELSE narrowWith(S, p, clue, slice(S, mid, midB, ubA, ubB))

\* narrow without the early `continue` of lines 422-424
narrow_noSame(S, p, last, clue, ubA, ubB) ==
    cut(S, p, last, clue, midOf(p, last), midBOf(p, midOf(p, last)), ubA, ubB)

\* lines 422-479: what one clue does to the loop.  Yields the exception
\* thrown ("none" if the iteration completes), whether slice was called,
\* what it returned, and the polygon search holds afterwards.
narrow(S, p, last, clue, ubA, ubB) ==
    IF clue = "SAME"
    THEN [threw |-> "none", sliced |-> FALSE, shapes |-> <<>>, search |-> S]
    ELSE cut(S, p, last, clue, midOf(p, last), midBOf(p, midOf(p, last)),
             ubA, ubB)

\* Lines 328 and 330 are reached only when slice builds two polygons; only
\* then is there a read past the end whose outcome is open.
strayOutcomes(polys) == IF Len(polys) = 2 THEN BOOLEAN ELSE {TRUE}

\* lines 420-481
ReceiveClue ==
    /\ pc = "clue"
    /\ \E clue \in Clues :
       \E usual \in {narrow(search, pos, lastPos, clue, TRUE, TRUE)} :
       \E ubA \in strayOutcomes(usual.shapes), ubB \in strayOutcomes(usual.shapes) :
       \E out \in {IF ubA /\ ubB THEN usual
                   ELSE narrow(search, pos, lastPos, clue, ubA, ubB)} :
        /\ bomb_clue' = clue
        /\ strayRead' = (strayRead \/ out # usual)
        /\ honest' = (honest /\ clue = HonestClue(pos, lastPos, target))
        /\ before' = search
        /\ sliced' = out.sliced
        /\ shapes' = out.shapes
        /\ search' = out.search
        /\ error' = out.threw
        /\ pc' = IF out.threw = "none" THEN "probe" ELSE "aborted"
    /\ UNCHANGED <<width, height, target, pos, lastPos, turn, probed>>
    /\ UNCHANGED <<geomVars, otherVars>>

Next == Move \/ ReceiveClue

Spec == Init /\ [][Next]_vars

(***************************************************************************)
(* The first turn of the game loop on boards up to MaxBoard x MaxBoard.    *)
(***************************************************************************)
InitOpening ==
    /\ width \in 1..MaxBoard
    /\ height \in 1..MaxBoard
    /\ target \in {PointZero, IPoint(width - 1, height - 1)}
    /\ pos \in Cells(width, height)
    /\ lastPos = PointZero
    /\ search = BoardRect(width, height)
    /\ bomb_clue = "UNKNOWN"
    /\ pc = "probe"
    /\ error = "none"
    /\ turn = 0
    /\ honest = TRUE
    /\ sliced = FALSE
    /\ shapes = <<>>
    /\ before = search
    /\ strayRead = FALSE
    /\ probed = FALSE
    /\ gStage = "off" /\ gPoly = <<>> /\ gA = PointZero /\ gB = PointZero
    /\ gOut = <<>>
    /\ gC = PointZero /\ gD = PointZero
    /\ ep1Off /\ playerNew

\* the first pass through lines 402-417
OpeningMove == turn = 0 /\ Move

NextOpening == OpeningMove \/ ReceiveClue

SpecOpening == InitOpening /\ [][NextOpening]_vars

(***************************************************************************)
(* The geometry classes on their own: Line's constructor,                  *)
(* Polygon::intersectsFromLine, Polygon::slice and the part of the loop    *)
(* body that consumes slice's result, applied to every polygon and every   *)
(* pair of points of a small grid.  The Polygon constructor checks         *)
(* nothing (line 225), so the inputs include non-convex vertex lists.      *)
(***************************************************************************)
GridPoints == {IPoint(x, y) : x \in 0..GridW, y \in 0..GridH}

\* the points of the grid's bottom and top rows
RowPoints == {IPoint(x, y) : x \in 0..GridW, y \in {0, GridH}}

\* vertex k lies strictly to the same side of side i as the board
\* rectangle's interior lies of its sides
insideOfSide(V, i, k) ==
    RLt(R(0), crossZ(PSub(V[Succ(V, i)], V[i]), PSub(V[k], V[i])))

\* strictly convex, wound like the board rectangle of lines 380-385
IsConvex(V) ==
    \A i \in 1..Len(V) : \A k \in 1..Len(V) \ {i, Succ(V, i)} :
        insideOfSide(V, i, k)

\* The convex polygons with their vertices on the two rows: triangles,
\* rectangles, parallelograms and trapezoids, from every starting vertex.
\* (A strictly convex polygon has at most two vertices on a row.)
ConvexPolygons ==
    {V \in [1..3 -> RowPoints] \cup [1..4 -> RowPoints] : IsConvex(V)}

\* quadrilaterals that are not convex: a bow-tie and a dart
BowTie == <<IPoint(0, 0), IPoint(2, 0), IPoint(0, 2), IPoint(2, 2)>>
Dart == <<IPoint(0, 0), IPoint(2, 1), IPoint(0, 2), IPoint(1, 1)>>

Polygons == ConvexPolygons \cup {BowTie, Dart}

driverOff ==
    /\ width = 0 /\ height = 0 /\ target = PointZero /\ search = <<>>
    /\ pos = PointZero /\ lastPos = PointZero /\ bomb_clue = "UNKNOWN"
    /\ pc = "off" /\ error = "none" /\ turn = 0 /\ honest = TRUE
    /\ sliced = FALSE /\ shapes = <<>> /\ before = <<>> /\ strayRead = FALSE
    /\ probed = FALSE

InitGeom ==
    /\ gStage = "input"
    /\ gPoly \in Polygons
    /\ gA \in GridPoints
    /\ gB \in GridPoints
    /\ gOut = <<>>
    /\ gC = PointZero /\ gD = PointZero
    /\ driverOff
    /\ ep1Off /\ playerNew

\* polygon.intersectsFromLine(A, B)
CallIntersectsFromLine ==
    /\ gStage = "input"
    /\ gPoly # <<>>
    /\ gStage' = "intersectsFromLine"
    /\ gOut' = intersectsOrThrow(gPoly, gA, gB)
    /\ UNCHANGED <<gPoly, gA, gB, gC, gD, driverVars, otherVars>>

\* the probe whose cut line is A -> B: line 448 read backwards
probeOfCut(A, B) == PAdd(A, Point(PSub(B, A).y, RNeg(PSub(B, A).x)))

\* polygon.slice(A, B) and what lines 455-479 do with its result, on
\* either clue, when search = polygon, mid = A, midB = B
CallSlice ==
    /\ gStage = "input"
    /\ gPoly # <<>>
    /\ gStage' = "slice"
    /\ \E found \in {intersectsOrThrow(gPoly, gA, gB)} :
       \E usual \in {sliceFrom(gPoly, found, TRUE, TRUE)} :
       \E ubA \in strayOutcomes(usual.polys), ubB \in strayOutcomes(usual.polys) :
       \E res \in {IF ubA /\ ubB THEN usual
                   ELSE sliceFrom(gPoly, found, ubA, ubB)} :
        gOut' = [intersects |-> found, res |-> res, stray |-> (res # usual),
                 warmer |-> narrowWith(gPoly, probeOfCut(gA, gB), "WARMER", res),
                 colder |-> narrowWith(gPoly, probeOfCut(gA, gB), "COLDER", res)]
    /\ UNCHANGED <<gPoly, gA, gB, gC, gD, driverVars, otherVars>>

NextGeom == CallIntersectsFromLine \/ CallSlice

SpecGeom == InitGeom /\ [][NextGeom]_vars

(***************************************************************************)
(* Line's constructor on every pair of points of a grid around the origin. *)
(***************************************************************************)
LinePoints == {IPoint(x, y) : x \in (-LineMax)..LineMax, y \in (-LineMax)..LineMax}

InitLine ==
    /\ gStage = "input"
    /\ gPoly = <<>>
    /\ gA \in LinePoints
    /\ gB \in LinePoints
    /\ gOut = <<>>
    /\ gC = PointZero /\ gD = PointZero
    /\ driverOff
    /\ ep1Off /\ playerNew

\* Line(A, B)
CallLine ==
    /\ gStage = "input"
    /\ gStage' = "Line"
    /\ gOut' = IF LineValid(gA, gB) THEN Line(gA, gB) ELSE Threw
    /\ UNCHANGED <<gPoly, gA, gB, gC, gD, driverVars, otherVars>>

NextLine == CallLine

SpecLine == InitLine /\ [][NextLine]_vars

(***************************************************************************)
(* Line's methods on the lines A -> B and C -> D through points of a grid. *)
(***************************************************************************)
CrossPoints == {IPoint(x, y) : x \in 0..CrossMax, y \in 0..CrossMax}

InitCross ==
    /\ gStage = "input"
    /\ gPoly = <<>>
    /\ gA \in CrossPoints
    /\ gB \in CrossPoints
    /\ gC \in CrossPoints
    /\ gD \in CrossPoints
    /\ gOut = <<>>
    /\ driverOff
    /\ ep1Off /\ playerNew

\* Line(A, B).intersection(Line(C, D))
CallIntersection ==
    /\ gStage = "input"
    /\ gStage' = "intersection"
    /\ gOut' = IF LineValid(gA, gB) /\ LineValid(gC, gD)
               THEN intersection(Line(gA, gB), Line(gC, gD))
               ELSE Threw
    /\ UNCHANGED <<gPoly, gA, gB, gC, gD, driverVars, otherVars>>

\* Line(A, B).pointInSegment(C)
CallPointInSegment ==
    /\ gStage = "input"
    /\ gStage' = "pointInSegment"
    /\ gOut' = IF LineValid(gA, gB)
               THEN [threw |-> "none", in |-> pointInSegment(Line(gA, gB), gC)]
               ELSE [threw |-> "InvalidGeometry", in |-> FALSE]
    /\ UNCHANGED <<gPoly, gA, gB, gC, gD, driverVars, otherVars>>

\* 0/0 in both coordinates
NaNPoint == [nan |-> TRUE]

\* A.rotateByComplex(B), for the B whose magnitude is an integer
CallRotateByComplex ==
    /\ gStage = "input"
    /\ hasExactMagnitude(gB)
    /\ gStage' = "rotateByComplex"
    /\ gOut' = IF gB = PointZero THEN NaNPoint
               ELSE rotateByComplex(gA, gB, magnitude(gB))
    /\ UNCHANGED <<gPoly, gA, gB, gC, gD, driverVars, otherVars>>

NextCross == CallIntersection \/ CallPointInSegment \/ CallRotateByComplex

SpecCross == InitCross /\ [][NextCross]_vars

(***************************************************************************)
(* shadows-of-the-knight/ep1: the bot that is told the direction of the    *)
(* target.  Its Points hold ints.                                          *)
(***************************************************************************)
geomOff ==
    /\ gStage = "off" /\ gPoly = <<>> /\ gA = PointZero /\ gB = PointZero
    /\ gOut = <<>> /\ gC = PointZero /\ gD = PointZero

\* ep1 lines 23-33
PtAdd(p, q) == Pt(p.x + q.x, p.y + q.y)
PtNeg(p) == Pt(-p.x, -p.y)
PtSub(p, q) == PtAdd(PtNeg(q), p)

\* the conversion of the double n/2 to int: towards zero
truncHalf(n) == IF n >= 0 THEN n \div 2 ELSE -((-n) \div 2)

\* ep1 lines 35-37 with n = 2
PtHalf(p) == Pt(truncHalf(p.x), truncHalf(p.y))

\* searchCentre rounding the half up
searchCentre_roundUp(tl, br) == PtAdd(PtHalf(PtAdd(PtSub(br, tl), Pt(1, 1))), tl)

\* ep1 line 73
searchCentre(tl, br) == PtAdd(PtHalf(PtSub(br, tl)), tl)

\* ep1 lines 62-69: one character of dir, on box = [tl, br]
reduceBy(box, c, p) ==
    IF c = "U" THEN [box EXCEPT !.br.y = p.y - 1]
    ELSE IF c = "D" THEN [box EXCEPT !.tl.y = p.y + 1]
    ELSE IF c = "L" THEN [box EXCEPT !.br.x = p.x - 1]
    ELSE IF c = "R" THEN [box EXCEPT !.tl.x = p.x + 1]
    ELSE box

\* ep1 lines 61-70
RECURSIVE reduce(_, _, _)
reduce(box, d, p) ==
    IF d = <<>> THEN box ELSE reduce(reduceBy(box, Head(d), p), Tail(d), p)

\* the eight hints of the game
Hints == {<<"U">>, <<"U", "R">>, <<"R">>, <<"D", "R">>,
          <<"D">>, <<"D", "L">>, <<"L">>, <<"U", "L">>}

\* the direction from p to the cell t; y grows downwards
HonestHint(p, t) ==
    (IF t.y < p.y THEN <<"U">> ELSE IF t.y > p.y THEN <<"D">> ELSE <<>>)
    \o (IF t.x < p.x THEN <<"L">> ELSE IF t.x > p.x THEN <<"R">> ELSE <<>>)

Ep1Cells(w, h) == {Pt(x, y) : x \in 0..(w - 1), y \in 0..(h - 1)}

\* ep1 lines 43-53; the game starts away from the target
InitEp1 ==
    /\ ep1Width \in 1..MaxW1
    /\ ep1Height \in 1..MaxH1
    /\ ep1Target \in Ep1Cells(ep1Width, ep1Height)
    /\ ep1Pos \in Ep1Cells(ep1Width, ep1Height) \ {ep1Target}
    /\ topleft = Pt(0, 0)
    /\ bottomright = Pt(ep1Width, ep1Height)
    /\ dir = <<>>
    /\ ep1Pc = "hint"
    /\ ep1Honest = TRUE
    /\ ep1Found = FALSE
    /\ driverOff /\ geomOff /\ playerNew

\* ep1 lines 57-70
ReadDir ==
    /\ ep1Pc = "hint"
    /\ \E d \in Hints :
       \E box \in {reduce([tl |-> topleft, br |-> bottomright], d, ep1Pos)} :
        /\ dir' = d
        /\ topleft' = box.tl
        /\ bottomright' = box.br
        /\ ep1Honest' = (ep1Honest /\ d = HonestHint(ep1Pos, ep1Target))
    /\ ep1Pc' = "probe"
    /\ UNCHANGED <<ep1Width, ep1Height, ep1Target, ep1Pos, ep1Found>>
    /\ UNCHANGED <<driverVars, geomVars, playerVars>>

\* ep1 lines 73-75; the game is over when the probe is the target
EmitProbe ==
    /\ ep1Pc = "probe"
    /\ ep1Pos' = searchCentre(topleft, bottomright)
    /\ ep1Found' = (ep1Pos' = ep1Target)
    /\ ep1Pc' = IF ep1Pos' = ep1Target THEN "done" ELSE "hint"
    /\ UNCHANGED <<ep1Width, ep1Height, ep1Target, topleft, bottomright, dir,
                   ep1Honest>>
    /\ UNCHANGED <<driverVars, geomVars, playerVars>>

NextEp1 == ReadDir \/ EmitProbe

\* the loop of line 56 goes round as long as the game answers
SpecEp1 == InitEp1 /\ [][NextEp1]_vars /\ WF_vars(NextEp1)

(***************************************************************************)
(* unknown-rules: Player::nextCmd, called once per frame with the four     *)
(* wall readings of the frame.                                             *)
(***************************************************************************)
\* unknown-rules lines 104-114
Up == Pt(0, -1)
Down == Pt(0, 1)
Left == Pt(-1, 0)
Right == Pt(1, 0)
Forward == Right
Backward == Left
LeftTurn == Up
RightTurn == Down

\* Point::rotateByComplex with the sign of the imaginary part turned round
rotateByComplexInt_conjugate(p, vec) ==
    Pt((p.x * vec.x) + (p.y * vec.y), (p.y * vec.x) - (p.x * vec.y))

\* unknown-rules lines 94-100
rotateByComplexInt(p, vec) ==
    Pt((p.x * vec.x) - (p.y * vec.y), (p.x * vec.y) + (p.y * vec.x))

\* unknown-rules lines 125-134
wallFromOrthogonal(w, p) ==
    IF p = Up THEN w.up
    ELSE IF p = Down THEN w.down
    ELSE IF p = Left THEN w.left
    ELSE w.right

\* unknown-rules lines 136-147
cmdFromOrthogonal(p) ==
    IF p = Up THEN "C"
    ELSE IF p = Down THEN "D"
    ELSE IF p = Left THEN "E"
    ELSE IF p = Right THEN "A"
    ELSE "B"

\* unknown-rules lines 157-168: tvec after the call
nextTvec(t, w) ==
    LET left == rotateByComplexInt(t, LeftTurn)
        right == rotateByComplexInt(t, RightTurn)
        back == rotateByComplexInt(t, Backward)
    IN  IF wallFromOrthogonal(w, left) = "_" THEN left
        ELSE IF wallFromOrthogonal(w, t) = "_" THEN t
        ELSE IF wallFromOrthogonal(w, right) = "_" THEN right
        ELSE back

\* what a wall reading may be: open, a wall, anything else
Readings == {"_", "#", "?"}

InitPlayer == playerNew /\ driverOff /\ geomOff /\ ep1Off

\* unknown-rules lines 213-220 and 274: one frame's readings and nextCmd
CallNextCmd ==
    /\ \E u \in Readings, r \in Readings, d \in Readings, l \in Readings :
          local' = [up |-> u, right |-> r, down |-> d, left |-> l]
    /\ heading' = tvec
    /\ tvec' = nextTvec(tvec, local')
    /\ cmd' = cmdFromOrthogonal(tvec')
    /\ UNCHANGED <<driverVars, geomVars, ep1Vars>>

NextPlayer == CallNextCmd

SpecPlayer == InitPlayer /\ [][NextPlayer]_vars

(***************************************************************************)
(* Properties of the game loop (Spec).                                     *)
(***************************************************************************)
\* t lies inside or on the boundary of a polygon wound like the board
InsideOrOn(V, t) ==
    \A i \in 1..Len(V) :
        RLe(R(0), crossZ(PSub(V[Succ(V, i)], V[i]), PSub(t, V[i])))

\* C1: with an honest oracle the target stays inside or on the boundary of
\* the search polygon after any number of turns.
\* (Stated for the runs in which no read past the end of a vector happened
\* to compare equal.)
C1_TargetStaysInSearch ==
    (honest /\ ~strayRead) => InsideOrOn(search, target)

IsIntegral(q) == q[2] = 1

\* the reflected, floored probe before clamping (lines 405-408)
unclamped(S, p) ==
    apply_floor(PSub(averageVertex(S), PSub(p, averageVertex(S))))

\* C2: every probe the loop emits is a pair of integers with
\* 0 <= x <= width-1 and 0 <= y <= height-1.
C2_ProbeOnBoard ==
    turn > 0 =>
        /\ IsIntegral(pos.x) /\ IsIntegral(pos.y)
        /\ 0 <= ToInt(pos.x) /\ ToInt(pos.x) <= width - 1
        /\ 0 <= ToInt(pos.y) /\ ToInt(pos.y) <= height - 1

\* a probe was emitted from a narrowed polygon and the clamp moved it
C2_Witness ==
    /\ pc = "clue"
    /\ search # BoardRect(width, height)
    /\ ~strayRead
    /\ unclamped(search, lastPos) # pos

\* C3: a turn whose token is SAME leaves the search polygon as it was and
\* does not call slice.
C3_SameLeavesSearch ==
    bomb_clue = "SAME" => (search = before /\ ~sliced /\ error = "none")

\* SAME was read while the search polygon was already narrowed
C3_Witness ==
    /\ bomb_clue = "SAME"
    /\ pc = "probe"
    /\ search # BoardRect(width, height)
    /\ ~strayRead
    /\ pos # lastPos

\* C4: a token other than WARMER, COLDER and SAME stops the run with an
\* error and never replaces the search polygon.
C4_UnknownTokenStopsRun ==
    bomb_clue = "OTHER" => (pc = "aborted" /\ search = before)

closerTo(s0, s1, p) ==
    RLt(distanceTo2(averageVertex(s0), p), distanceTo2(averageVertex(s1), p))

\* C5: when slice returned two polygons, WARMER keeps the one whose vertex
\* average is closer to the probe just emitted and COLDER keeps the other.
C5_KeepsNearOrFar ==
    (pc = "probe" /\ Len(shapes) = 2) =>
        /\ (bomb_clue = "WARMER" /\ closerTo(shapes[1], shapes[2], pos))
              => search = shapes[1]
        /\ (bomb_clue = "WARMER" /\ closerTo(shapes[2], shapes[1], pos))
              => search = shapes[2]
        /\ (bomb_clue = "COLDER" /\ closerTo(shapes[1], shapes[2], pos))
              => search = shapes[2]
        /\ (bomb_clue = "COLDER" /\ closerTo(shapes[2], shapes[1], pos))
              => search = shapes[1]

\* WARMER kept the second polygon slice returned
C5_Witness ==
    /\ pc = "probe" /\ Len(shapes) = 2
    /\ bomb_clue = "WARMER"
    /\ closerTo(shapes[2], shapes[1], pos)
    /\ search = shapes[2]
    /\ ~strayRead

\* the cut line of the turn just played (lines 447-448)
lastMid == midOf(pos, lastPos)
lastMidB == midBOf(pos, lastMid)

fewerThanTwo ==
    /\ sliced /\ pc # "clue"
    /\ ~intersectsThrows(before, lastMid, lastMidB)
    /\ Len(intersectsFromLine(before, lastMid, lastMidB)) < 2

\* C6: when the cut yields fewer than 2 accepted intersections, slice
\* returns just the original polygon without an error and the loop goes on
\* to the next turn with the search polygon unchanged.
C6_NoBisectionKeepsSearch ==
    fewerThanTwo =>
        (shapes = <<before>> /\ search = before /\ pc = "probe"
         /\ error = "none")

\* the cut touched the polygon in exactly one accepted point
C6_Witness ==
    /\ fewerThanTwo
    /\ Len(intersectsFromLine(before, lastMid, lastMidB)) = 1
    /\ search # BoardRect(width, height)
    /\ ~strayRead

(***************************************************************************)
(* Properties of the geometry classes (SpecGeom, SpecLine).                *)
(***************************************************************************)
moreThanTwo ==
    /\ gStage = "slice"
    /\ gOut.intersects.threw = "none"
    /\ Len(gOut.intersects.list) > 2

\* C7: with more than 2 accepted intersections slice throws and returns no
\* polygons (it does not go on with two of them), and the loop does not
\* replace its search polygon.
C7_TooManyIntersectionsThrow ==
    moreThanTwo =>
        /\ gOut.res.threw = "DegenerateGeometry"
        /\ gOut.res.polys = <<>>
        /\ gOut.warmer.threw = "DegenerateGeometry"
        /\ gOut.colder.threw = "DegenerateGeometry"
        /\ gOut.warmer.search = gPoly
        /\ gOut.colder.search = gPoly

\* slice was called on a polygon that a line meets in more than 2 sides
C7_Witness == moreThanTwo /\ gOut.res.threw # "none"

\* C8: constructing a Line from A and B throws exactly when A and B have
\* the same coordinates; otherwise the Line returned runs from A to B and
\* has a non-zero travel vector.
C8_LineThrowsIffSamePoint ==
    gStage = "Line" =>
        /\ (gOut = Threw) <=> (gA.x = gB.x /\ gA.y = gB.y)
        /\ gOut # Threw =>
              (gOut.A = gA /\ gOut.B = gB /\ gOut.A # gOut.B
               /\ gOut.vec # PointZero)

\* the constructor was called with twice the same point, and threw
C8_Witness == gStage = "Line" /\ gA = gB /\ gOut = Threw

\* on which side of the line A -> B the point v lies
sideOf(A, B, v) == crossZ(PSub(B, A), PSub(v, A))

\* the line A -> B has vertices of V strictly on both of its sides
crossesInterior(V, A, B) ==
    /\ A # B
    /\ \E i \in 1..Len(V) : RLt(R(0), sideOf(A, B, V[i]))
    /\ \E i \in 1..Len(V) : RLt(sideOf(A, B, V[i]), R(0))

Strip(s, cuts) == SelectSeq(s, LAMBDA v : v \notin cuts)

Rotations(s) ==
    {SubSeq(s, k, Len(s)) \o SubSeq(s, 1, k - 1) : k \in 1..(Len(s) + 1)}

\* the points intersectsFromLine reported to the slice made
cutPoints ==
    {gOut.intersects.list[k].first : k \in 1..Len(gOut.intersects.list)}

\* the two polygons, without the vertices in cuts, are complementary arcs
\* of the ring of vertices `ring`
arcsOf(polys, cuts, ring) ==
    \E rB \in Rotations(Strip(polys[2], cuts)) :
        (Strip(polys[1], cuts) \o rB) \in Rotations(ring)

sliceOfCrossedConvex ==
    /\ gStage = "slice"
    /\ IsConvex(gPoly)
    /\ crossesInterior(gPoly, gA, gB)

\* C9 as stated: without the two cut points, the two polygons hold every
\* vertex of P once, in P's cyclic order.
C9_PartitionOfAllVertices ==
    sliceOfCrossedConvex =>
        /\ Len(gOut.res.polys) = 2
        /\ arcsOf(gOut.res.polys, cutPoints, gPoly)

\* C9 amended: without the two cut points, the two polygons hold every
\* vertex of P that is not itself a cut point once, in P's cyclic order.
C9_PartitionOfUncutVertices ==
    sliceOfCrossedConvex =>
        /\ Len(gOut.res.polys) = 2
        /\ arcsOf(gOut.res.polys, cutPoints, Strip(gPoly, cutPoints))

\* a convex polygon was sliced through one of its vertices
C9_Witness ==
    /\ sliceOfCrossedConvex
    /\ Len(gOut.res.polys) = 2
    /\ \E i \in 1..Len(gPoly) : gPoly[i] \in cutPoints
    /\ \E i \in 1..Len(gPoly) : gPoly[i] \notin cutPoints
    /\ ~gOut.stray

\* no vertex of V lies on the line A -> B
missesEntirely(V, A, B) ==
    \/ \A i \in 1..Len(V) : RLt(R(0), sideOf(A, B, V[i]))
    \/ \A i \in 1..Len(V) : RLt(sideOf(A, B, V[i]), R(0))

\* the line A -> B meets V in one vertex and nowhere else
touchesOneVertex(V, A, B) ==
    /\ ~crossesInterior(V, A, B)
    /\ Cardinality({i \in 1..Len(V) : sideOf(A, B, V[i]) = R(0)}) = 1

\* C10: for a convex polygon intersectsFromLine returns at most 2 pairs:
\* 2 when the line crosses the interior, 0 when it misses the polygon, and
\* 1 only when it touches the polygon at a single vertex.
C10_IntersectionCount ==
    (gStage = "intersectsFromLine" /\ IsConvex(gPoly) /\ gA # gB) =>
        /\ gOut.threw = "none"
        /\ Len(gOut.list) <= 2
        /\ crossesInterior(gPoly, gA, gB) => Len(gOut.list) = 2
        /\ missesEntirely(gPoly, gA, gB) => Len(gOut.list) = 0
        /\ Len(gOut.list) = 1 => touchesOneVertex(gPoly, gA, gB)

\* no point occurs twice among the vertices
DistinctVertices(V) ==
    \A i \in 1..Len(V) : \A k \in 1..Len(V) : i # k => V[i] # V[k]

\* no vertex lies on the outer side of any side
NowhereConcave(V) ==
    \A i \in 1..Len(V) : \A k \in 1..Len(V) :
        RLe(R(0), crossZ(PSub(V[Succ(V, i)], V[i]), PSub(V[k], V[i])))

IsConvexPolygon(V) ==
    Len(V) >= 3 /\ DistinctVertices(V) /\ NowhereConcave(V)

\* one side of V joins the two points of cuts
hasSide(V, cuts) ==
    \E i \in 1..Len(V) : V[i] # V[Succ(V, i)] /\ {V[i], V[Succ(V, i)]} = cuts

\* C11: the two polygons slice returns for a convex polygon and a line
\* crossing its interior are convex polygons of at least 3 distinct
\* vertices, and both have the segment between the two cut points as a side.
\* (Stated for the calls in which no read past the end of a vector happened
\* to compare equal.)
C11_SliceGivesConvexPolygons ==
    (sliceOfCrossedConvex /\ ~gOut.stray) =>
        /\ Len(gOut.res.polys) = 2
        /\ \A n \in 1..2 :
              /\ IsConvexPolygon(gOut.res.polys[n])
              /\ hasSide(gOut.res.polys[n], cutPoints)

(***************************************************************************)
(* More properties of the game loop (Spec).                                *)
(***************************************************************************)
RECURSIVE sumUpTo(_, _)
sumUpTo(xs, n) == IF n = 0 THEN R(0) ELSE RAdd(sumUpTo(xs, n - 1), xs[n])

\* the arithmetic mean of the numbers xs[1], ..., xs[Len(xs)]
meanOf(xs) == RDiv(sumUpTo(xs, Len(xs)), R(Len(xs)))

\* 2*c - p, floored and clamped into 0..top
reflectInto(c, p, top) ==
    LET f == floor(RSub(RMul(R(2), c), p))
    IN  IF RLt(f, R(0)) THEN R(0) ELSE IF RLt(R(top), f) THEN R(top) ELSE f

\* C12: the probe emitted is 2*center - previousProbe, center being the
\* arithmetic mean of the search polygon's vertices, with each coordinate
\* floored and clamped into the board; it is a function of the search
\* polygon, the previous probe and the board alone.
C12_ProbeIsReflection ==
    pc = "clue" =>
        /\ pos.x = reflectInto(meanOf([i \in 1..Len(search) |-> search[i].x]),
                               lastPos.x, width - 1)
        /\ pos.y = reflectInto(meanOf([i \in 1..Len(search) |-> search[i].y]),
                               lastPos.y, height - 1)

\* a probe was emitted from a narrowed polygon whose reflection point is
\* not a grid point, on the board without clamping
C12_Witness ==
    /\ pc = "clue"
    /\ turn = 2
    /\ ~strayRead
    /\ search # BoardRect(width, height)
    /\ ~IsIntegral(RSub(RMul(R(2), averageVertex(search).x), lastPos.x))
    /\ unclamped(search, lastPos) = pos
    /\ pos # lastPos

\* the first probe of the run on the 8x8 board started at (0,0) is out
openingOn8x8 ==
    /\ width = 8 /\ height = 8
    /\ turn = 1 /\ pc = "clue"
    /\ lastPos = IPoint(0, 0)

\* C13 as stated: on the 8x8 board started at (0,0) the search polygon of
\* the first turn is the full board rectangle, its vertex average is
\* (3.5, 3.5) and the first probe is (7,7).
C13_OpeningCentre35 ==
    openingOn8x8 =>
        /\ search = <<IPoint(0, 0), IPoint(8, 0), IPoint(8, 8), IPoint(0, 8)>>
        /\ averageVertex(search) = Point(<<7, 2>>, <<7, 2>>)
        /\ pos = IPoint(7, 7)

\* C13 amended: on the 8x8 board started at (0,0) the search polygon of the
\* first turn is the full board rectangle (0,0),(8,0),(8,8),(0,8), its
\* vertex average is (4,4) and the first probe is (7,7).
C13_OpeningCentre4 ==
    openingOn8x8 =>
        /\ search = <<IPoint(0, 0), IPoint(8, 0), IPoint(8, 8), IPoint(0, 8)>>
        /\ averageVertex(search) = IPoint(4, 4)
        /\ pos = IPoint(7, 7)

\* the first probe of that run is out: (8,8), clamped to (7,7)
C13_Witness ==
    /\ openingOn8x8
    /\ unclamped(search, lastPos) = IPoint(8, 8)
    /\ pos = IPoint(7, 7)

(***************************************************************************)
(* Properties of Line's methods (SpecCross).                               *)
(***************************************************************************)
\* C14: for two lines with distinct endpoints, intersection returns a point
\* on both infinite lines when the directions are not parallel, and no
\* point when they are parallel.
C14_IntersectionOnBothLines ==
    (gStage = "intersection" /\ gA # gB /\ gC # gD) =>
        /\ crossZ(PSub(gB, gA), PSub(gD, gC)) # R(0) =>
              /\ gOut # NoPoint
              /\ gOut # Threw
              /\ crossZ(PSub(gB, gA), PSub(gOut, gA)) = R(0)
              /\ crossZ(PSub(gD, gC), PSub(gOut, gC)) = R(0)
        /\ crossZ(PSub(gB, gA), PSub(gD, gC)) = R(0) => gOut = NoPoint

\* two lines were found to cross in a point that is not a grid point
C14_Witness ==
    /\ gStage = "intersection" /\ gA # gB /\ gC # gD
    /\ gOut # NoPoint /\ gOut # Threw
    /\ ~IsIntegral(gOut.x)
    /\ gOut \notin {gA, gB, gC, gD}

\* P's coordinates lie between those of A and B
inBox(A, B, P) ==
    /\ RLe(RMin(A.x, B.x), P.x) /\ RLe(P.x, RMax(A.x, B.x))
    /\ RLe(RMin(A.y, B.y), P.y) /\ RLe(P.y, RMax(A.y, B.y))

\* C15: pointInSegment(P) on the line A -> B is true exactly when the cross
\* product of B-A and P-A has absolute value below 0.002 and P lies in the
\* bounding box of A and B; a point of the box off the line, on either
\* side, is rejected.
C15_PointInSegmentIffOnSegment ==
    (gStage = "pointInSegment" /\ gA # gB) =>
        (gOut.in <=>
            /\ RLt(RAbs(crossZ(PSub(gB, gA), PSub(gC, gA))), <<2, 1000>>)
            /\ inBox(gA, gB, gC))

\* C16: rotating (1,0) by (0,1) yields (0,1); rotating v by (1,0) yields v;
\* rotating v by (0,1) yields (-v.y, v.x); and an argument of the same
\* direction and another length yields the same.
C16_RotationByDirection ==
    gStage = "rotateByComplex" =>
        /\ (gA = IPoint(1, 0) /\ gB = IPoint(0, 1)) => gOut = IPoint(0, 1)
        /\ gB = IPoint(1, 0) => gOut = gA
        /\ gB = IPoint(0, 1) => gOut = Point(RNeg(gA.y), gA.x)
        /\ (gB.x = R(0) /\ RLt(R(0), gB.y)) => gOut = Point(RNeg(gA.y), gA.x)
        /\ (gB.y = R(0) /\ RLt(R(0), gB.x)) => gOut = gA

\* (1,2) was rotated by (0,2)
C16_Witness ==
    /\ gStage = "rotateByComplex"
    /\ gA = IPoint(1, 2) /\ gB = IPoint(0, 2)
    /\ gOut = Point(R(-2), R(1))

(***************************************************************************)
(* Properties of the turns of the game loop (Spec).                        *)
(***************************************************************************)
dot(p, q) == RAdd(RMul(p.x, q.x), RMul(p.y, q.y))

\* C17: on a WARMER or COLDER turn between two distinct probes the cut line
\* runs through mid, the floored midpoint of the two probes, and is
\* perpendicular to the move: (midB - mid) . (pos - lastPos) = 0.
C17_CutPerpendicularToMove ==
    (bomb_clue \in {"WARMER", "COLDER"} /\ pc # "clue" /\ pos # lastPos) =>
        /\ lastMid = Point(floor(RDiv(RAdd(pos.x, lastPos.x), R(2))),
                           floor(RDiv(RAdd(pos.y, lastPos.y), R(2))))
        /\ dot(PSub(lastMidB, lastMid), PSub(pos, lastPos)) = R(0)

\* C18: each turn starts by setting lastPos to the probe emitted on the
\* turn before (the start position on the first turn), also after a turn
\* that did not narrow the polygon; and a turn that does not narrow (SAME,
\* or slice returned one polygon) changes nothing of search, pos, lastPos.
C18_LastPosFollowsProbe ==
    [][ /\ (pc = "probe" /\ pc' = "clue") => lastPos' = pos
        /\ (pc = "clue" /\ pc' = "probe"
            /\ (bomb_clue' = "SAME" \/ Len(shapes') < 2))
              => (search' = search /\ pos' = pos /\ lastPos' = lastPos)
      ]_vars

\* the turn after one on which slice returned a single polygon has begun,
\* and lastPos was moved on to that turn's probe
C18_Witness ==
    /\ pc = "clue" /\ turn = 2
    /\ sliced /\ Len(shapes) = 1
    /\ search = BoardRect(width, height)
    /\ lastPos # PointZero
    /\ pos # lastPos

\* C19: probes and clue reads alternate strictly, one probe and then one
\* clue per turn, and the loop is never left, whatever the clues are.
C19_AlternatesForever ==
    [][ /\ pc = "probe" => (pc' = "clue" /\ turn' = turn + 1)
        /\ pc = "clue" => (pc' = "probe" /\ turn' = turn)
      ]_vars

(***************************************************************************)
(* More properties of the geometry classes (SpecGeom).                     *)
(***************************************************************************)
Pred(V, i) == IF i = 1 THEN Len(V) ELSE i - 1

\* the line A -> B passes through vertex i of V and is parallel to neither
\* of the sides that meet there
cutsThroughVertex(V, A, B, i) ==
    /\ sideOf(A, B, V[i]) = R(0)
    /\ crossZ(PSub(B, A), PSub(V[Succ(V, i)], V[i])) # R(0)
    /\ crossZ(PSub(B, A), PSub(V[i], V[Pred(V, i)])) # R(0)

\* C20: a vertex Vk the line passes through, parallel to neither adjacent
\* side, is reported exactly once, with the index k of the side that
\* starts at Vk (position k+1 of the sequence has index k).
C20_VertexReportedOnceByNextSide ==
    (gStage = "intersectsFromLine" /\ gOut.threw = "none") =>
        \A i \in 1..Len(gPoly) :
            cutsThroughVertex(gPoly, gA, gB, i) =>
                /\ Cardinality({n \in 1..Len(gOut.list) :
                                   gOut.list[n].first = gPoly[i]}) = 1
                /\ \A n \in 1..Len(gOut.list) :
                      gOut.list[n].first = gPoly[i]
                          => gOut.list[n].second = i - 1

\* the line passed through the first vertex of a convex polygon, whose
\* previous side is the closing one, and through the interior
C20_Witness ==
    /\ gStage = "intersectsFromLine" /\ gOut.threw = "none"
    /\ IsConvex(gPoly)
    /\ cutsThroughVertex(gPoly, gA, gB, 1)
    /\ crossesInterior(gPoly, gA, gB)
    /\ Len(gOut.list) = 2

(***************************************************************************)
(* Properties of whole runs of the game loop (Spec).                       *)
(***************************************************************************)
\* C21: in a run with an honest oracle, on every WARMER or COLDER turn mid
\* and midB are distinct (and so are the two probes), so neither Line of
\* lines 451 and 453 throws and the run is not aborted before slice.
C21_CutLineConstructible ==
    (honest /\ bomb_clue \in {"WARMER", "COLDER"} /\ pc # "clue") =>
        /\ lastMid # lastMidB
        /\ pos # lastPos
        /\ ~(pc = "aborted" /\ ~sliced)

(***************************************************************************)
(* Properties of slice's results (SpecGeom).                               *)
(***************************************************************************)
\* C22: no polygon slice returns holds the same point at two cyclically
\* consecutive positions, also when a cut point is a vertex of the polygon
\* cut.  (Stated for convex polygons and the calls in which no read past
\* the end of a vector happened to compare equal.)
C22_NoRepeatedVertex ==
    (gStage = "slice" /\ IsConvex(gPoly) /\ ~gOut.stray) =>
        \A n \in 1..Len(gOut.res.polys) :
            \A i \in 1..Len(gOut.res.polys[n]) :
                gOut.res.polys[n][i]
                    # gOut.res.polys[n][Succ(gOut.res.polys[n], i)]

(***************************************************************************)
(* The search polygon from one turn to the next.                           *)
(***************************************************************************)
\* every vertex of W lies inside or on the boundary of V, and inside the
\* rectangle [0,w] x [0,h]
liesWithin(W, V, w, h) ==
    \A i \in 1..Len(W) :
        /\ InsideOrOn(V, W[i])
        /\ RLe(R(0), W[i].x) /\ RLe(W[i].x, R(w))
        /\ RLe(R(0), W[i].y) /\ RLe(W[i].y, R(h))

\* C23: whatever the cut line and the clue, each vertex of the polygon a
\* turn leaves in search lies inside or on the boundary of the convex
\* polygon the turn began with, and so inside the rectangle that one lay
\* in.
C23_TurnNeverGrowsSearch ==
    (gStage = "slice" /\ IsConvex(gPoly)) =>
        /\ liesWithin(gOut.warmer.search, gPoly, GridW, GridH)
        /\ liesWithin(gOut.colder.search, gPoly, GridW, GridH)

\* a convex polygon was cut in two across the interiors of two sides
C23_Witness ==
    /\ gStage = "slice" /\ IsConvex(gPoly) /\ ~gOut.stray
    /\ Len(gOut.res.polys) = 2
    /\ gOut.warmer.search # gPoly
    /\ gOut.colder.search # gOut.warmer.search
    /\ \A i \in 1..Len(gPoly) : gPoly[i] \notin cutPoints

\* The same over the runs of the game loop: after every turn the search
\* polygon lies within the one the turn began with and within the board.
SearchNeverGrowsInRuns ==
    pc # "clue" => liesWithin(search, before, width, height)

(***************************************************************************)
(* Which of the two pieces is labelled warm (lines 461-467).               *)
(***************************************************************************)
\* the two labels after lines 461-467, for the turn just played
warmOf == IF swapWarmCold(shapes[1], shapes[2], pos) THEN shapes[2] ELSE shapes[1]
coldOf == IF swapWarmCold(shapes[1], shapes[2], pos) THEN shapes[1] ELSE shapes[2]

\* p is strictly off the line A -> B, and no vertex of V is strictly on the
\* other side of it
onSideOf(V, A, B, p) ==
    /\ sideOf(A, B, p) # R(0)
    /\ \A i \in 1..Len(V) :
          RLe(R(0), RMul(sideOf(A, B, V[i]), sideOf(A, B, p)))

C25_HonestRunReachesTarget ==
    (honest /\ pc = "aborted") => probed

(***************************************************************************)
(* What may change the search polygon.                                     *)
(***************************************************************************)
\* C26: the search polygon changes only in the handling of a clue that is
\* WARMER or COLDER and for which slice returned two polygons, and the new
\* polygon is then one of these two; emitting a probe leaves it alone.
C26_SearchChangesOnlyOnTwoPieces ==
    [][ search' # search =>
            /\ pc = "clue"
            /\ bomb_clue' \in {"WARMER", "COLDER"}
            /\ Len(shapes') = 2
            /\ search' \in {shapes'[1], shapes'[2]}
      ]_vars

\* the same with the tokens the loop handles like COLDER (lines 472-479)
SearchChangesOnlyOnTwoPieces_anyToken ==
    [][ search' # search =>
            /\ pc = "clue"
            /\ bomb_clue' # "SAME"
            /\ Len(shapes') = 2
            /\ search' \in {shapes'[1], shapes'[2]}
      ]_vars

(***************************************************************************)
(* shadows-of-the-knight/ep1 (SpecEp1).                                    *)
(***************************************************************************)
ep1Boxed ==
    /\ topleft.x <= ep1Target.x /\ ep1Target.x <= bottomright.x
    /\ topleft.y <= ep1Target.y /\ ep1Target.y <= bottomright.y

ep1OnBoard ==
    /\ 0 <= ep1Pos.x /\ ep1Pos.x < ep1Width
    /\ 0 <= ep1Pos.y /\ ep1Pos.y < ep1Height

\* C27: with an honest oracle the target is always within topleft ..
\* bottomright (inclusive), every probe is a cell of the board, and a
\* probe equal to the target is emitted after finitely many turns.
C27_Ep1BoxedOnBoardAndFound ==
    /\ [](ep1Honest => (ep1Boxed /\ ep1OnBoard))
    /\ <>(~ep1Honest \/ ep1Found)

\* an honest game ended on the target after the box was narrowed from
\* both corners
C27_Witness ==
    /\ ep1Honest /\ ep1Found /\ ep1Pc = "done"
    /\ topleft.x > 0 /\ topleft.y > 0
    /\ bottomright.x < ep1Width - 1 /\ bottomright.y < ep1Height - 1

(***************************************************************************)
(* unknown-rules (SpecPlayer).                                             *)
(***************************************************************************)
UnitDirections == {Pt(1, 0), Pt(-1, 0), Pt(0, 1), Pt(0, -1)}

\* on the screen, where y grows downwards: the direction to the left of h
leftOf(h) ==
    CASE h = Pt(1, 0) -> Pt(0, -1)
      [] h = Pt(0, -1) -> Pt(-1, 0)
      [] h = Pt(-1, 0) -> Pt(0, 1)
      [] h = Pt(0, 1) -> Pt(1, 0)

rightOf(h) == leftOf(leftOf(leftOf(h)))
reverseOf(h) == leftOf(leftOf(h))

\* the reading of the cell next to the player in direction d
readingTowards(w, d) ==
    CASE d = Pt(0, -1) -> w.up
      [] d = Pt(0, 1) -> w.down
      [] d = Pt(-1, 0) -> w.left
      [] d = Pt(1, 0) -> w.right

\* the command of a direction (lines 269-272)
commandOf(d) ==
    CASE d = Pt(0, -1) -> "C"
      [] d = Pt(0, 1) -> "D"
      [] d = Pt(-1, 0) -> "E"
      [] d = Pt(1, 0) -> "A"

\* C28: after every call of nextCmd the heading tvec is one of the four
\* unit directions; it is the first open ('_') one of left of the old
\* heading, the old heading, right of the old heading, and the reverse of
\* the old heading if none is open; the command returned is the one of
\* the new heading, one of A, C, D, E and never B.
C28_WallFollower ==
    /\ tvec \in UnitDirections
    /\ cmd # "" =>
        /\ tvec = (IF readingTowards(local, leftOf(heading)) = "_"
                   THEN leftOf(heading)
                   ELSE IF readingTowards(local, heading) = "_"
                   THEN heading
                   ELSE IF readingTowards(local, rightOf(heading)) = "_"
                   THEN rightOf(heading)
                   ELSE reverseOf(heading))
        /\ cmd = commandOf(tvec)
        /\ cmd \in {"A", "C", "D", "E"}

\* heading up with walls to the left and ahead, the player turned right
C28_Witness ==
    /\ cmd = "A"
    /\ heading = Pt(0, -1)
    /\ local.left # "_" /\ local.up # "_" /\ local.right = "_"

====
